---- MODULE Spec2Model ----
(***************************************************************************)
(* A model of internal/chart/v3/loader/load.go: LoadFiles (the chart       *)
(* assembler), LoadValues (the multi-document values reader) and MergeMaps *)
(* (the deep merge).                                                       *)
(*                                                                         *)
(* File names are strings and are taken apart character by character, as   *)
(* the strings and filepath packages do.  File contents are abstract       *)
(* documents: what matters of a byte blob is what the YAML decoder makes   *)
(* of it.                                                                  *)
(***************************************************************************)
EXTENDS Integers, Sequences, FiniteSets, TLC

VARIABLES
  files,      \* LoadFiles: the input list ([]*BufferedFile)
  pc,         \* LoadFiles: position in the function body
  c,          \* LoadFiles: the chart under construction (c)
  err,        \* LoadFiles: the returned error (NoErr while running / on success)
  subcharts,  \* LoadFiles: map[string][]*BufferedFile
  pending,    \* LoadFiles: keys of subcharts the range loop has not visited yet
  visited,    \* LoadFiles: the keys the range loop has visited, in its order
  archived,   \* LoadFiles: keys for which LoadArchive was called by this call
  ma, mb,     \* MergeMaps: the two arguments
  mout,       \* MergeMaps: MergeMaps(ma, mb)
  mout2,      \* MergeMaps: MergeMaps(mout, mb)
  mpc         \* MergeMaps: position of the merge driver

loadVars  == <<files, pc, c, err, subcharts, pending, visited, archived>>
mergeVars == <<ma, mb, mout, mout2, mpc>>
vars      == <<files, pc, c, err, subcharts, pending, visited, archived,
               ma, mb, mout, mout2, mpc>>

(***************************************************************************)
(* Bounds of the model.                                                    *)
(***************************************************************************)
MaxScalar == 3      \* scalar leaves of a values mapping are 1..MaxScalar
MaxFiles  == 3      \* longest input list handed to LoadFiles
MaxDocs   == 2      \* most documents in a values.yaml of the values inputs

(***************************************************************************)
(* Strings: strings.HasPrefix, strings.TrimPrefix, strings.SplitN(s,"/",2),*)
(* strings.IndexAny(s, chars) == 0 and filepath.Ext.                       *)
(***************************************************************************)
Char(s, i) == SubSeq(s, i, i)

HasPrefix(s, p) == Len(s) >= Len(p) /\ SubSeq(s, 1, Len(p)) = p

TrimPrefix(s, p) == IF HasPrefix(s, p) THEN SubSeq(s, Len(p) + 1, Len(s)) ELSE s

\* index of the first "/" of s at or after i; 0 when there is none
RECURSIVE IndexSlash(_, _)
IndexSlash(s, i) ==
  IF i > Len(s) THEN 0
  ELSE IF Char(s, i) = "/" THEN i
  ELSE IndexSlash(s, i + 1)

\* strings.SplitN(s, "/", 2): one part when s has no "/", else two
SplitN2(s) ==
  LET i == IndexSlash(s, 1) IN
    IF i = 0 THEN <<s>>
    ELSE <<SubSeq(s, 1, i - 1), SubSeq(s, i + 1, Len(s))>>

\* strings.IndexAny(s, "_.") == 0
IndexAnyIsZero(s) == Len(s) >= 1 /\ Char(s, 1) \in {"_", "."}

\* filepath.Ext: the suffix from the last "." of the last path element
RECURSIVE ExtFrom(_, _)
ExtFrom(path, i) ==
  IF i = 0 THEN ""
  ELSE IF Char(path, i) = "/" THEN ""
  ELSE IF Char(path, i) = "." THEN SubSeq(path, i, Len(path))
  ELSE ExtFrom(path, i - 1)

Ext(path) == ExtFrom(path, Len(path))

(***************************************************************************)
(* Values: interface{} as decoded from YAML.  A Go map[string]interface{}  *)
(* is a function from a finite set of keys to such values.                 *)
(***************************************************************************)
NoMap == <<>>

Null      == [t |-> "null",   v |-> 0, s |-> <<>>, m |-> NoMap]
Scalar(n) == [t |-> "scalar", v |-> n, s |-> <<>>, m |-> NoMap]
SeqVal(q) == [t |-> "seq",    v |-> 0, s |-> q,    m |-> NoMap]
MapVal(f) == [t |-> "map",    v |-> 0, s |-> <<>>, m |-> f]

\* v.(map[string]interface{}) succeeds
IsMap(v) == v.t = "map"

\* out[k] = v
Put(f, k, v) == [x \in (DOMAIN f) \cup {k} |-> IF x = k THEN v ELSE f[x]]

RECURSIVE MergeMaps(_, _)
RECURSIVE MergeRange(_, _, _)

\* one overlay entry with sequences appended instead of replaced
MergeEntryConcat(out, k, v) ==
  IF IsMap(v) /\ k \in DOMAIN out /\ IsMap(out[k])
    THEN Put(out, k, MapVal(MergeMaps(out[k].m, v.m)))
  ELSE IF v.t = "seq" /\ k \in DOMAIN out /\ out[k].t = "seq"
    THEN Put(out, k, SeqVal(out[k].s \o v.s))
  ELSE Put(out, k, v)

\* one overlay entry that always replaces, never recursing
MergeEntryShallow(out, k, v) == Put(out, k, v)

\* the body of MergeMaps' range loop for the entry (k, v) of b
MergeEntry(out, k, v) ==
  IF IsMap(v) /\ k \in DOMAIN out /\ IsMap(out[k])
    THEN Put(out, k, MapVal(MergeMaps(out[k].m, v.m)))
    ELSE Put(out, k, v)

\* for k, v := range b, over the keys ks still to visit
MergeRange(out, b, ks) ==
  IF ks = {} THEN out
  ELSE LET k == CHOOSE x \in ks : TRUE IN
         MergeRange(MergeEntry(out, k, b[k]), b, ks \ {k})

\* out := copy of a; range over b
MergeMaps(a, b) == MergeRange(a, b, DOMAIN b)

(***************************************************************************)
(* The mappings the merge is exercised on: three levels of keys.           *)
(***************************************************************************)
TopKeys   == {"x"}
InnerKeys == {"a", "b"}
DeepKeys  == {"k"}

Leaves == {Scalar(n) : n \in 1..MaxScalar} \cup {SeqVal(<<1, 2>>), Null}

PartialFns(K, V) == UNION {[D -> V] : D \in SUBSET K}

DeepMaps  == PartialFns(DeepKeys, Leaves)
InnerVals == Leaves \cup {MapVal(f) : f \in DeepMaps}
InnerMaps == PartialFns(InnerKeys, InnerVals)
TopVals   == Leaves \cup {MapVal(f) : f \in InnerMaps}
TopMaps   == PartialFns(TopKeys, TopVals)

(***************************************************************************)
(* File contents.  A blob is what the decoders make of a byte slice:       *)
(*   meta  - a YAML mapping of chart metadata fields (set: field -> value),*)
(*   docs  - a stream of YAML documents,                                   *)
(*   lock  - a well-formed Chart.lock,                                     *)
(*   tgz   - a chart archive,                                              *)
(*   bytes - anything no decoder of this file looks into,                  *)
(*   bad   - bytes every decoder rejects.                                  *)
(***************************************************************************)
Blob(y, set, docs, b) == [y |-> y, set |-> set, docs |-> docs, b |-> b]

MetaBlob(set)  == Blob("meta", set, <<>>, "")
DocsBlob(docs) == Blob("docs", <<>>, docs, "")
LockBlob       == Blob("lock", <<>>, <<>>, "lock")
TgzBlob        == Blob("tgz", <<>>, <<>>, "packed")
Bytes(b)       == Blob("bytes", <<>>, <<>>, b)
BadBlob        == Blob("bad", <<>>, <<>>, "")
NilBlob        == Blob("nil", <<>>, <<>>, "")

\* one YAML document of a values stream
MapDoc(f) == [d |-> "map", m |-> f]
EmptyDoc  == [d |-> "empty", m |-> NoMap]
BadDoc    == [d |-> "bad", m |-> NoMap]

BufferedFile(name, data) == [Name |-> name, Data |-> data]

(***************************************************************************)
(* chart.Metadata, chart.Chart and the errors LoadFiles returns.           *)
(***************************************************************************)
APIVersionV3 == "v3"

MetaFields == {"Name", "Version", "APIVersion", "Description"}

NilMetadata ==
  [nil |-> TRUE, Name |-> "", Version |-> "", APIVersion |-> "", Description |-> ""]

\* new(chart.Metadata)
NewMetadata ==
  [nil |-> FALSE, Name |-> "", Version |-> "", APIVersion |-> "", Description |-> ""]

NilValues    == [nil |-> TRUE, m |-> NoMap]
ValuesOf(f)  == [nil |-> FALSE, m |-> f]

\* new(chart.Chart)
NewChart ==
  [Raw          |-> <<>>,
   Metadata     |-> NilMetadata,
   Lock         |-> "nil",
   Values       |-> NilValues,
   Schema       |-> NilBlob,
   Templates    |-> <<>>,
   Files        |-> <<>>,
   Dependencies |-> <<>>]

Err(kind, n, cause) == [kind |-> kind, n |-> n, cause |-> cause]
NoErr == Err("", "", "")

ErrChartYaml       == Err("cannot load Chart.yaml", "", "")
ErrChartLock       == Err("cannot load Chart.lock", "", "")
ErrValues          == Err("cannot load values.yaml", "", "")
ErrMissing         == Err("Chart.yaml file is missing", "", "")
ErrValidation      == Err("validation", "", "")
ErrArchive         == Err("archive", "", "")
ErrNaming(n)       == Err("error unpacking subchart tar", n, "")
ErrUnpack(n, e)    == Err("error unpacking subchart", n, e.kind)

\* chart.File{Name: f.Name, Data: f.Data}
ChartFile(f) == [Name |-> f.Name, Data |-> f.Data]

(***************************************************************************)
(* The YAML decoder (sigs.k8s.io/yaml.Unmarshal) on the blobs above.       *)
(***************************************************************************)
\* yaml.Unmarshal(data, c.Metadata) returns nil
MetadataDecodes(data) == data.y = "meta"

\* a decode into a fresh record: a field the document does not mention is empty
UnmarshalMetadataReset(data, md) ==
  [fld \in DOMAIN md |->
     IF fld = "nil" THEN FALSE
     ELSE IF fld \in DOMAIN data.set THEN data.set[fld] ELSE ""]

\* yaml.Unmarshal(data, c.Metadata): decodes INTO the existing record, so a
\* field the document does not mention keeps the value md already has
UnmarshalMetadata(data, md) ==
  [fld \in DOMAIN md |->
     IF fld = "nil" THEN FALSE
     ELSE IF fld \in DOMAIN data.set THEN data.set[fld] ELSE md[fld]]

\* yaml.Unmarshal(f.Data, &c.Lock) returns nil
LockDecodes(data) == data.y = "lock"

\* yaml.Unmarshal(raw, &currentMap) returns nil
DocDecodes(doc) == doc.d # "bad"

\* currentMap after a successful decode (an empty document leaves it empty)
DocMap(doc) == IF doc.d = "map" THEN doc.m ELSE NoMap

(***************************************************************************)
(* LoadValues: read the documents one by one and fold them with MergeMaps. *)
(***************************************************************************)
RECURSIVE LoadValuesFrom(_, _, _)
RECURSIVE LoadValuesFromBaseWins(_, _, _)

\* the fold with the arguments of MergeMaps swapped: earlier documents win
LoadValuesFromBaseWins(docs, i, values) ==
  IF i > Len(docs) THEN [values |-> ValuesOf(values), err |-> FALSE]
  ELSE IF ~DocDecodes(docs[i]) THEN [values |-> NilValues, err |-> TRUE]
  ELSE LoadValuesFromBaseWins(docs, i + 1, MergeMaps(DocMap(docs[i]), values))

LoadValuesFrom(docs, i, values) ==
  IF i > Len(docs) THEN [values |-> ValuesOf(values), err |-> FALSE]
  ELSE IF ~DocDecodes(docs[i]) THEN [values |-> NilValues, err |-> TRUE]
  ELSE LoadValuesFrom(docs, i + 1, MergeMaps(values, DocMap(docs[i])))

LoadValues(data) ==
  IF data.y = "docs" THEN LoadValuesFrom(data.docs, 1, NoMap)
  ELSE [values |-> NilValues, err |-> TRUE]

(***************************************************************************)
(* LoadFiles, first loop: record every file in Raw and decode Chart.yaml.  *)
(***************************************************************************)
\* c.Raw = append(c.Raw, ...) with the name cut down to its last element
AppendRawBase(ch, f) ==
  [ch EXCEPT !.Raw = Append(@, [Name |-> SplitN2(TrimPrefix(f.Name, "charts/"))[1],
                                Data |-> f.Data])]

\* c.Raw = append(c.Raw, &chart.File{Name: f.Name, Data: f.Data})
AppendRaw(ch, f) == [ch EXCEPT !.Raw = Append(@, ChartFile(f))]

\* the APIVersion default, lines 93-95
DefaultAPIVersion(md) ==
  IF md.APIVersion = "" THEN [md EXCEPT !.APIVersion = APIVersionV3] ELSE md

RECURSIVE FirstLoopFrom(_, _, _)
FirstLoopFrom(fs, i, ch) ==
  IF i > Len(fs) THEN [c |-> ch, err |-> NoErr]
  ELSE LET f  == fs[i]
           c1 == AppendRaw(ch, f)
       IN IF f.Name = "Chart.yaml"
            THEN LET md0 == IF c1.Metadata.nil THEN NewMetadata ELSE c1.Metadata IN
                   IF ~MetadataDecodes(f.Data)
                     THEN [c |-> [c1 EXCEPT !.Metadata = md0], err |-> ErrChartYaml]
                     ELSE FirstLoopFrom(fs, i + 1,
                            [c1 EXCEPT !.Metadata =
                               DefaultAPIVersion(UnmarshalMetadata(f.Data, md0))])
            ELSE FirstLoopFrom(fs, i + 1, c1)

FirstLoop(fs) == FirstLoopFrom(fs, 1, NewChart)

(***************************************************************************)
(* LoadFiles, second loop: the switch on the file name.                    *)
(***************************************************************************)
\* subcharts[cname] = append(subcharts[cname], bf)
AppendGroup(sub, cname, bf) ==
  Put(sub, cname, Append(IF cname \in DOMAIN sub THEN sub[cname] ELSE <<>>, bf))

\* the switch for one file: the chart, the groups and the error after it
Classify(ch, sub, f) ==
  IF f.Name = "Chart.yaml" THEN [c |-> ch, sub |-> sub, err |-> NoErr]
  ELSE IF f.Name = "Chart.lock" THEN
    IF LockDecodes(f.Data)
      THEN [c |-> [ch EXCEPT !.Lock = f.Data.b], sub |-> sub, err |-> NoErr]
      ELSE [c |-> [ch EXCEPT !.Lock = "new"], sub |-> sub, err |-> ErrChartLock]
  ELSE IF f.Name = "values.yaml" THEN
    LET r == LoadValues(f.Data) IN
      IF r.err THEN [c |-> ch, sub |-> sub, err |-> ErrValues]
      ELSE [c |-> [ch EXCEPT !.Values = r.values], sub |-> sub, err |-> NoErr]
  ELSE IF f.Name = "values.schema.json" THEN
    [c |-> [ch EXCEPT !.Schema = f.Data], sub |-> sub, err |-> NoErr]
  ELSE IF HasPrefix(f.Name, "templates/") THEN
    [c |-> [ch EXCEPT !.Templates = Append(@, ChartFile(f))], sub |-> sub, err |-> NoErr]
  ELSE IF HasPrefix(f.Name, "charts/") THEN
    IF Ext(f.Name) = ".prov"
      THEN [c |-> [ch EXCEPT !.Files = Append(@, ChartFile(f))], sub |-> sub, err |-> NoErr]
      ELSE LET fname == TrimPrefix(f.Name, "charts/")
               cname == SplitN2(fname)[1]
           IN [c |-> ch, sub |-> AppendGroup(sub, cname, BufferedFile(fname, f.Data)),
               err |-> NoErr]
  ELSE [c |-> [ch EXCEPT !.Files = Append(@, ChartFile(f))], sub |-> sub, err |-> NoErr]

RECURSIVE SecondLoopFrom(_, _, _, _)
SecondLoopFrom(fs, i, ch, sub) ==
  IF i > Len(fs) THEN [c |-> ch, sub |-> sub, err |-> NoErr]
  ELSE LET r == Classify(ch, sub, fs[i]) IN
         IF r.err # NoErr THEN r
         ELSE SecondLoopFrom(fs, i + 1, r.c, r.sub)

SecondLoop(ch, fs) == SecondLoopFrom(fs, 1, ch, <<>>)

(***************************************************************************)
(* The checks between the loops and the range over subcharts.              *)
(***************************************************************************)
\* c.Validate(): the metadata has a name and a version
Validate(ch) == ch.Metadata.Name # "" /\ ch.Metadata.Version # ""

\* the two checks in the other order
CheckChartValidateFirst(ch) ==
  IF ~Validate(ch) THEN ErrValidation
  ELSE IF ch.Metadata.nil THEN ErrMissing
  ELSE NoErr

\* lines 133-139: the error returned there, NoErr when execution goes on
CheckChart(ch) ==
  IF ch.Metadata.nil THEN ErrMissing
  ELSE IF ~Validate(ch) THEN ErrValidation
  ELSE NoErr

\* c.AddDependency(sc)
AddDependency(ch, sc) == [ch EXCEPT !.Dependencies = Append(@, sc)]

\* lines 157-165: drop the members with no "/", cut the group off the others
RECURSIVE TrimGroup(_)
RECURSIVE TrimGroupNoCut(_)

\* drops the members with no "/" but leaves the group in the names
TrimGroupNoCut(members) ==
  IF members = <<>> THEN <<>>
  ELSE LET parts == SplitN2(Head(members).Name) IN
         IF Len(parts) < 2 THEN TrimGroupNoCut(Tail(members))
         ELSE <<Head(members)>> \o TrimGroupNoCut(Tail(members))

TrimGroup(members) ==
  IF members = <<>> THEN <<>>
  ELSE LET parts == SplitN2(Head(members).Name) IN
         IF Len(parts) < 2 THEN TrimGroup(Tail(members))
         ELSE <<BufferedFile(parts[2], Head(members).Data)>> \o TrimGroup(Tail(members))

\* the files LoadArchive finds in a well-formed archive
ArchiveFiles(data) ==
  <<BufferedFile("Chart.yaml", MetaBlob([Name |-> "packed", Version |-> "1"]))>>

\* the switch with only "_" excluded
GroupCaseUnderscoreOnly(n) ==
  IF Len(n) >= 1 /\ Char(n, 1) = "_" THEN "skip"
  ELSE IF Ext(n) = ".tgz" THEN "tgz"
  ELSE "dir"

\* the switch of the range loop: which branch the key n takes
GroupCase(n) ==
  IF IndexAnyIsZero(n) THEN "skip"
  ELSE IF Ext(n) = ".tgz" THEN "tgz"
  ELSE "dir"

RECURSIVE LoadFilesOutcomes(_)
RECURSIVE RangeOutcomes(_, _, _)

\* LoadArchive(bytes.NewBuffer(file.Data)): every (chart, error) it may return
LoadArchive(data) ==
  IF data.y = "tgz" THEN LoadFilesOutcomes(ArchiveFiles(data))
  ELSE {[c |-> NewChart, err |-> ErrArchive]}

\* lines 169-172 for the (sc, err) a loader returned
Attach(ch, n, o, called) ==
  IF o.err # NoErr
    THEN [c |-> ch, err |-> ErrUnpack(n, o.err), called |-> called]
    ELSE [c |-> AddDependency(ch, o.c), err |-> NoErr, called |-> called]

\* the .tgz branch decoding the archive whatever the member is called
TgzGroupUnchecked(ch, n, members) ==
  {Attach(ch, n, o, TRUE) : o \in LoadArchive(members[1].Data)}

\* the .tgz branch, lines 147-153
TgzGroup(ch, n, members) ==
  IF members[1].Name # n
    THEN {[c |-> ch, err |-> ErrNaming(n), called |-> FALSE]}
    ELSE {Attach(ch, n, o, TRUE) : o \in LoadArchive(members[1].Data)}

\* the default branch, lines 154-166
DirGroup(ch, n, members) ==
  {Attach(ch, n, o, FALSE) : o \in LoadFilesOutcomes(TrimGroup(members))}

\* one iteration of the range loop, for the key n
RangeBody(ch, sub, n) ==
  CASE GroupCase(n) = "skip" -> {[c |-> ch, err |-> NoErr, called |-> FALSE]}
    [] GroupCase(n) = "tgz"  -> TgzGroup(ch, n, sub[n])
    [] GroupCase(n) = "dir"  -> DirGroup(ch, n, sub[n])

\* the range loop over the keys pend, in every order a Go map may give
RangeOutcomes(ch, sub, pend) ==
  IF pend = {} THEN {[c |-> ch, err |-> NoErr]}
  ELSE UNION {
         UNION { IF o.err # NoErr THEN {[c |-> o.c, err |-> o.err]}
                 ELSE RangeOutcomes(o.c, sub, pend \ {n})
                 : o \in RangeBody(ch, sub, n) }
         : n \in pend }

\* LoadFiles(fs): every (chart, error) it may return
LoadFilesOutcomes(fs) ==
  LET p1 == FirstLoop(fs) IN
    IF p1.err # NoErr THEN {p1}
    ELSE LET p2 == SecondLoop(p1.c, fs) IN
      IF p2.err # NoErr THEN {[c |-> p2.c, err |-> p2.err]}
      ELSE IF CheckChart(p2.c) # NoErr THEN {[c |-> p2.c, err |-> CheckChart(p2.c)]}
      ELSE RangeOutcomes(p2.c, p2.sub, DOMAIN p2.sub)

(***************************************************************************)
(* The inputs LoadFiles is run on.                                         *)
(***************************************************************************)
MetaFull      == MetaBlob([Name |-> "full", Version |-> "1", APIVersion |-> "v2",
                           Description |-> "d"])
MetaBare      == MetaBlob([Name |-> "bare", Version |-> "2"])
MetaNoVersion == MetaBlob([Name |-> "nover"])

DocA == MapDoc([x |-> MapVal([a |-> Scalar(1), b |-> Scalar(2)])])
DocB == MapDoc([x |-> MapVal([b |-> Scalar(3)])])
DocC == MapDoc([x |-> SeqVal(<<1, 2>>), y |-> Scalar(1)])

Docs == {DocA, DocB, DocC, EmptyDoc, BadDoc}

SeqsUpTo(S, n) == UNION {[1..k -> S] : k \in 0..n}

Vocabulary ==
  { BufferedFile("Chart.yaml", MetaFull),
    BufferedFile("Chart.yaml", MetaBare),
    BufferedFile("Chart.yaml", MetaNoVersion),
    BufferedFile("Chart.yaml", BadBlob),
    BufferedFile("Chart.lock", LockBlob),
    BufferedFile("Chart.lock", BadBlob),
    BufferedFile("values.yaml", DocsBlob(<<DocA, DocB>>)),
    BufferedFile("values.yaml", DocsBlob(<<DocA, BadDoc>>)),
    BufferedFile("values.schema.json", Bytes("schema")),
    BufferedFile("templates/t.yaml", Bytes("tpl")),
    BufferedFile("README.md", Bytes("readme")),
    BufferedFile("charts/a/Chart.yaml", MetaBare),
    BufferedFile("charts/a/charts/b/Chart.yaml", MetaFull),
    BufferedFile("charts/c/notes.txt", Bytes("notes")),
    BufferedFile("charts/_helpers/x.tpl", Bytes("helper")),
    BufferedFile("charts/.hidden/Chart.yaml", BadBlob),
    BufferedFile("charts/_x.tgz/y.tgz", Bytes("y")),
    BufferedFile("charts/foo.tgz", TgzBlob),
    BufferedFile("charts/foo.tgz", BadBlob),
    BufferedFile("charts/foo.tgz/bar.tgz", TgzBlob),
    BufferedFile("charts/README.md", Bytes("readme")),
    BufferedFile("charts/foo.tgz.prov", Bytes("prov")) }

\* a chart with one values.yaml, for every stream of at most MaxDocs documents
ValuesInputs ==
  UNION { { <<BufferedFile("Chart.yaml", MetaBare), BufferedFile("values.yaml", DocsBlob(ds))>>,
            <<BufferedFile("values.yaml", DocsBlob(ds)), BufferedFile("Chart.yaml", MetaFull)>> }
          : ds \in SeqsUpTo(Docs, MaxDocs) }

Inputs == SeqsUpTo(Vocabulary, MaxFiles) \cup ValuesInputs

(***************************************************************************)
(* LoadFiles as a state machine.                                           *)
(***************************************************************************)
Init ==
  /\ files \in Inputs
  /\ pc = "first"
  /\ c = NewChart
  /\ err = NoErr
  /\ subcharts = <<>>
  /\ pending = {}
  /\ visited = <<>>
  /\ archived = {}
  /\ ma = NoMap /\ mb = NoMap /\ mout = NoMap /\ mout2 = NoMap /\ mpc = "off"

\* lines 81-97
FirstPass ==
  /\ pc = "first"
  /\ LET r == FirstLoop(files) IN
       /\ c' = r.c
       /\ err' = r.err
       /\ pc' = IF r.err # NoErr THEN "done" ELSE "second"
  /\ UNCHANGED <<files, subcharts, pending, visited, archived, mergeVars>>

\* lines 98-131
SecondPass ==
  /\ pc = "second"
  /\ LET r == SecondLoop(c, files) IN
       /\ c' = r.c
       /\ subcharts' = r.sub
       /\ err' = r.err
       /\ pc' = IF r.err # NoErr THEN "done" ELSE "check"
  /\ UNCHANGED <<files, pending, visited, archived, mergeVars>>

\* lines 133-139
Check ==
  /\ pc = "check"
  /\ err' = CheckChart(c)
  /\ pc' = IF CheckChart(c) # NoErr THEN "done" ELSE "range"
  /\ pending' = DOMAIN subcharts
  /\ UNCHANGED <<files, c, subcharts, visited, archived, mergeVars>>

\* one iteration of the range loop, lines 141-173, for a key of the given case
RangeStep(case) ==
  /\ pc = "range"
  /\ \E n \in pending :
       /\ GroupCase(n) = case
       /\ \E o \in RangeBody(c, subcharts, n) :
            /\ c' = o.c
            /\ err' = o.err
            /\ archived' = IF o.called THEN archived \cup {n} ELSE archived
            /\ pc' = IF o.err # NoErr THEN "done" ELSE "range"
       /\ pending' = pending \ {n}
       /\ visited' = Append(visited, n)
  /\ UNCHANGED <<files, subcharts, mergeVars>>

SkipGroup    == RangeStep("skip")
LoadTgzGroup == RangeStep("tgz")
LoadDirGroup == RangeStep("dir")

\* line 175
Return ==
  /\ pc = "range"
  /\ pending = {}
  /\ pc' = "done"
  /\ UNCHANGED <<files, c, err, subcharts, pending, visited, archived, mergeVars>>

Next ==
  \/ FirstPass
  \/ SecondPass
  \/ Check
  \/ SkipGroup
  \/ LoadTgzGroup
  \/ LoadDirGroup
  \/ Return

Spec == Init /\ [][Next]_vars

(***************************************************************************)
(* MergeMaps applied once, and once more with the same overlay.            *)
(***************************************************************************)
MergeInit ==
  /\ ma \in TopMaps
  /\ mb \in TopMaps
  /\ mout = NoMap
  /\ mout2 = NoMap
  /\ mpc = "start"
  /\ files = <<>> /\ pc = "off" /\ c = NewChart /\ err = NoErr
  /\ subcharts = <<>> /\ pending = {} /\ visited = <<>> /\ archived = {}

MergeOnce ==
  /\ mpc = "start"
  /\ mout' = MergeMaps(ma, mb)
  /\ mpc' = "merged"
  /\ UNCHANGED <<ma, mb, mout2, loadVars>>

MergeAgain ==
  /\ mpc = "merged"
  /\ mout2' = MergeMaps(mout, mb)
  /\ mpc' = "remerged"
  /\ UNCHANGED <<ma, mb, mout, loadVars>>

MergeNext == MergeOnce \/ MergeAgain

MergeSpec == MergeInit /\ [][MergeNext]_vars

(***************************************************************************)
(* Properties.  What follows is stated on the input list and the state,    *)
(* not through the operators above.                                        *)
(***************************************************************************)
Indexes(q) == 1..Len(q)

\* the positions of the entries of fs called name
Named(fs, name) == {i \in Indexes(fs) : fs[i].Name = name}

Last(S) == CHOOSE i \in S : \A j \in S : j <= i

FirstOf(S) == CHOOSE i \in S : \A j \in S : i <= j

\* the first loop ran to its end
FirstLoopCompleted == pc \notin {"first", "off"} /\ err # ErrChartYaml

\* C1: once the first loop has run to its end, whether LoadFiles goes on to
\* succeed or to fail, Raw has the length of the input and its i-th entry has the
\* name and the bytes of the i-th input file, subchart members included.
C1_RawIsInput ==
  FirstLoopCompleted =>
    /\ Len(c.Raw) = Len(files)
    /\ \A i \in Indexes(files) :
         c.Raw[i].Name = files[i].Name /\ c.Raw[i].Data = files[i].Data

\* a directory subchart was loaded from members whose names were cut, and the
\* parent's Raw still has the full name
C1_Witness ==
  /\ pc = "done"
  /\ err = NoErr
  /\ "a" \in DOMAIN subcharts
  /\ Len(c.Dependencies) >= 1
  /\ \E i \in Indexes(files) :
       files[i].Name = "charts/a/Chart.yaml" /\ c.Raw[i].Name = "charts/a/Chart.yaml"

\* a Chart.lock or values.yaml entry the second loop fails on
Undecodable(f) ==
  \/ f.Name = "Chart.lock" /\ f.Data.y # "lock"
  \/ f.Name = "values.yaml" /\
       (f.Data.y # "docs" \/ \E j \in Indexes(f.Data.docs) : f.Data.docs[j].d = "bad")

DecodeError(f) == IF f.Name = "Chart.lock" THEN ErrChartLock ELSE ErrValues

NoChartYaml == Named(files, "Chart.yaml") = {}

\* C2 as stated: with no Chart.yaml entry the error is "Chart.yaml file is
\* missing", whatever the other entries are.
C2_MissingWhateverElse ==
  (pc = "done" /\ NoChartYaml) => err = ErrMissing

\* C2, amended: with no Chart.yaml entry LoadFiles fails before any subchart
\* group is visited and never with a validation error; the error is "Chart.yaml
\* file is missing" when every Chart.lock and values.yaml entry decodes, and
\* otherwise the decode error of the first entry that does not, because the
\* check comes after the second loop.
C2_MissingAfterClassification ==
  (pc = "done" /\ NoChartYaml) =>
    /\ visited = <<>> /\ archived = {} /\ c.Dependencies = <<>>
    /\ LET bad == {i \in Indexes(files) : Undecodable(files[i])} IN
         IF bad = {} THEN err = ErrMissing
         ELSE err = DecodeError(files[FirstOf(bad)])

\* no Chart.yaml, subchart groups collected by the second loop, none visited
C2_Witness ==
  /\ pc = "done"
  /\ NoChartYaml
  /\ err = ErrMissing
  /\ DOMAIN subcharts # {}
  /\ visited = <<>>

\* the deep merge as a relation between base, overlay and result
RECURSIVE RefMerge(_, _)
RefMerge(base, overlay) ==
  [k \in (DOMAIN base) \cup (DOMAIN overlay) |->
     IF k \notin DOMAIN overlay THEN base[k]
     ELSE IF k \notin DOMAIN base THEN overlay[k]
     ELSE IF base[k].t = "map" /\ overlay[k].t = "map"
       THEN MapVal(RefMerge(base[k].m, overlay[k].m))
       ELSE overlay[k]]

\* C3: MergeMaps(base, overlay) is the deep merge: union of the key sets, base's
\* value for a key only in base, overlay's for a key only in overlay, the merge
\* of the two when both are mappings, and overlay's value otherwise.
C3_MergeIsDeepMerge ==
  mpc \in {"merged", "remerged"} => mout = RefMerge(ma, mb)

\* merge({x:{a:1,b:2}}, {x:{b:3}}) = {x:{a:1,b:3}}
C3_Witness ==
  /\ mpc = "merged"
  /\ ma = [x |-> MapVal([a |-> Scalar(1), b |-> Scalar(2)])]
  /\ mb = [x |-> MapVal([b |-> Scalar(3)])]
  /\ mout = [x |-> MapVal([a |-> Scalar(1), b |-> Scalar(3)])]

\* C4: merging the same overlay a second time changes nothing:
\* MergeMaps(MergeMaps(a, b), b) = MergeMaps(a, b).
C4_MergeIdempotent ==
  mpc = "remerged" => mout2 = mout

\* a holds a non-map where b holds a non-empty map, merged twice
C4_Witness ==
  /\ mpc = "remerged"
  /\ "x" \in DOMAIN ma /\ "x" \in DOMAIN mb
  /\ ma["x"].t # "map"
  /\ mb["x"].t = "map" /\ DOMAIN mb["x"].m # {}
  /\ mout2 = mb

\* the positions of the Chart.yaml entries
ChartYamls == Named(files, "Chart.yaml")

\* the metadata LoadFiles gives for a list holding only the Chart.yaml at i
MetadataOfAlone(i) ==
  LET set == files[i].Data.set IN
    [nil         |-> FALSE,
     Name        |-> IF "Name" \in DOMAIN set THEN set["Name"] ELSE "",
     Version     |-> IF "Version" \in DOMAIN set THEN set["Version"] ELSE "",
     APIVersion  |-> IF "APIVersion" \in DOMAIN set /\ set["APIVersion"] # ""
                       THEN set["APIVersion"] ELSE APIVersionV3,
     Description |-> IF "Description" \in DOMAIN set THEN set["Description"] ELSE ""]

\* C10 as stated: with several Chart.yaml entries the metadata is what the last
\* one alone would give.
C10_LastAloneWins ==
  (FirstLoopCompleted /\ Cardinality(ChartYamls) > 1) =>
    c.Metadata = MetadataOfAlone(Last(ChartYamls))

\* the value the field fld ends with: that of the last Chart.yaml setting it
LastSetting(fld) ==
  LET setters == {i \in ChartYamls : fld \in DOMAIN files[i].Data.set} IN
    IF setters = {} THEN "" ELSE files[Last(setters)].Data.set[fld]

\* C10, amended: with several Chart.yaml entries there is one metadata record,
\* decoded into again for each entry: every field has the value of the last
\* entry, in input order, that sets it, so a field the last entry leaves out
\* keeps the value of an earlier entry, and the API version is the default only
\* when no entry sets one.
C10_LastSettingWins ==
  (FirstLoopCompleted /\ Cardinality(ChartYamls) > 1) =>
    /\ ~c.Metadata.nil
    /\ c.Metadata.Name = LastSetting("Name")
    /\ c.Metadata.Version = LastSetting("Version")
    /\ c.Metadata.Description = LastSetting("Description")
    /\ c.Metadata.APIVersion =
         (IF LastSetting("APIVersion") = "" THEN APIVersionV3 ELSE LastSetting("APIVersion"))

\* a full Chart.yaml followed by a bare one: the name is the second's, the
\* description and the API version are still the first's
C10_Witness ==
  /\ pc = "done"
  /\ Cardinality(ChartYamls) = 2
  /\ files[FirstOf(ChartYamls)].Data = MetaFull
  /\ files[Last(ChartYamls)].Data = MetaBare
  /\ c.Metadata.Name = "bare"
  /\ c.Metadata.Description = "d"
  /\ c.Metadata.APIVersion = "v2"

\* the positions of the values.yaml entries
ValuesYamls == Named(files, "values.yaml")

\* the mapping a document contributes
MappingOf(doc) == IF doc.d = "map" THEN doc.m ELSE NoMap

\* the left fold of MergeMaps over the first n documents, from the empty mapping
RECURSIVE FoldDocs(_, _)
FoldDocs(docs, n) ==
  IF n = 0 THEN NoMap ELSE MergeMaps(FoldDocs(docs, n - 1), MappingOf(docs[n]))

UnderCharts(f) == HasPrefix(f.Name, "charts/")

OneChartNoCharts ==
  /\ Cardinality(ChartYamls) = 1
  /\ \A i \in Indexes(files) : ~UnderCharts(files[i])

\* the one Chart.yaml decodes to a name and a version, and every Chart.lock and
\* values.yaml entry decodes
WellFormed ==
  /\ \A i \in ChartYamls :
       /\ files[i].Data.y = "meta"
       /\ {"Name", "Version"} \subseteq DOMAIN files[i].Data.set
  /\ \A i \in Indexes(files) : ~Undecodable(files[i])

\* C5: for an input with exactly one Chart.yaml and no charts/ entry: when it
\* is well-formed LoadFiles succeeds with no dependencies and with values equal
\* to the left fold of MergeMaps over the documents of values.yaml, in order,
\* from the empty mapping (of the last values.yaml entry should there be
\* several; no values when there is none); when a document of values.yaml does
\* not decode the load fails, and with one values.yaml entry no values are set.
C5_ValuesAreFold ==
  (pc = "done" /\ OneChartNoCharts) =>
    /\ WellFormed => err = NoErr
    /\ err = NoErr =>
         /\ c.Dependencies = <<>>
         /\ c.Values.nil = (ValuesYamls = {})
         /\ ValuesYamls # {} =>
              LET docs == files[Last(ValuesYamls)].Data.docs IN
                c.Values.m = FoldDocs(docs, Len(docs))
    /\ (\E i \in ValuesYamls : Undecodable(files[i])) =>
         /\ err # NoErr
         /\ Cardinality(ValuesYamls) = 1 => c.Values = NilValues

\* {x:{a:1,b:2}} then {x:{b:3}} in one values.yaml: the second overlays the first
C5_Witness ==
  /\ pc = "done"
  /\ err = NoErr
  /\ OneChartNoCharts
  /\ Cardinality(ValuesYamls) = 1
  /\ files[Last(ValuesYamls)].Data.docs = <<DocA, DocB>>
  /\ c.Values.m = [x |-> MapVal([a |-> Scalar(1), b |-> Scalar(3)])]

\* a file that goes to a subchart group: under charts/ and not a .prov file
IsMember(f) == UnderCharts(f) /\ Ext(f.Name) # ".prov"

\* the group key of a member: what follows charts/ up to the next "/"
KeyOf(f) ==
  LET rest == SubSeq(f.Name, Len("charts/") + 1, Len(f.Name))
      i    == IndexSlash(rest, 1)
  IN IF i = 0 THEN rest ELSE SubSeq(rest, 1, i - 1)

Excluded(n) == Len(n) >= 1 /\ Char(n, 1) \in {"_", "."}

GroupKeys == {KeyOf(files[i]) : i \in {j \in Indexes(files) : IsMember(files[j])}}

LoadableKeys == {n \in GroupKeys : ~Excluded(n)}

\* the keys the range loop visited and did not skip, in its order
LoadedKeys == SelectSeq(visited, LAMBDA n : ~Excluded(n))

\* the members of fs whose name starts with prefix, the prefix removed, in order
RECURSIVE CutMembers(_, _)
CutMembers(fs, prefix) ==
  IF fs = <<>> THEN <<>>
  ELSE LET f == Head(fs) IN
         IF IsMember(f) /\ Len(f.Name) >= Len(prefix) /\ SubSeq(f.Name, 1, Len(prefix)) = prefix
           THEN <<[Name |-> SubSeq(f.Name, Len(prefix) + 1, Len(f.Name)), Data |-> f.Data]>>
                  \o CutMembers(Tail(fs), prefix)
           ELSE CutMembers(Tail(fs), prefix)

\* the input is Chart.yaml, charts/a/Chart.yaml, charts/a/charts/b/Chart.yaml,
\* in some order, all well-formed
NestedInput ==
  /\ Len(files) = 3
  /\ {files[i].Name : i \in Indexes(files)} =
       {"Chart.yaml", "charts/a/Chart.yaml", "charts/a/charts/b/Chart.yaml"}
  /\ WellFormed

\* C6: the nested input gives one dependency, a, with one dependency, b, with
\* none; and on every success there is one dependency per charts/ group key
\* that is not excluded, each directory-style one being a chart LoadFiles
\* returns for the group's members with charts/<group>/ removed, in input order.
C6_OneChildPerGroup ==
  /\ (pc = "done" /\ NestedInput) =>
       /\ err = NoErr
       /\ Len(c.Dependencies) = 1
       /\ c.Dependencies[1].Metadata.Name = "bare"
       /\ Len(c.Dependencies[1].Dependencies) = 1
       /\ c.Dependencies[1].Dependencies[1].Metadata.Name = "full"
       /\ c.Dependencies[1].Dependencies[1].Dependencies = <<>>
  /\ (pc = "done" /\ err = NoErr) =>
       /\ Len(c.Dependencies) = Cardinality(LoadableKeys)
       /\ Len(LoadedKeys) = Cardinality(LoadableKeys)
       /\ {LoadedKeys[i] : i \in Indexes(LoadedKeys)} = LoadableKeys
       /\ \A i \in Indexes(LoadedKeys) :
            Ext(LoadedKeys[i]) # ".tgz" =>
              \E o \in LoadFilesOutcomes(CutMembers(files, "charts/" \o LoadedKeys[i] \o "/")) :
                o.err = NoErr /\ o.c = c.Dependencies[i]

\* the nested input, loaded
C6_Witness ==
  /\ pc = "done"
  /\ err = NoErr
  /\ NestedInput
  /\ Len(c.Dependencies) = 1
  /\ Len(c.Dependencies[1].Dependencies) = 1

\* the input without the members of excluded groups
WithoutExcluded == SelectSeq(files, LAMBDA f : ~(IsMember(f) /\ Excluded(KeyOf(f))))

\* the chart apart from Raw
SameButRaw(x, y) ==
  /\ x.Metadata = y.Metadata /\ x.Lock = y.Lock /\ x.Values = y.Values
  /\ x.Schema = y.Schema /\ x.Templates = y.Templates /\ x.Files = y.Files
  /\ x.Dependencies = y.Dependencies

\* C7: a group whose key starts with "_" or "." is never loaded and never
\* makes LoadFiles fail: the archive loader is not called for it, no error names
\* it, the dependencies are at most one per visited key that is not excluded,
\* and what LoadFiles returns is, Raw apart, what it may return for the input
\* with the excluded groups' members taken out.
C7_ExcludedNeverLoaded ==
  /\ \A n \in archived : ~Excluded(n)
  /\ ~Excluded(err.n)
  /\ pc \in {"range", "done"} => Len(c.Dependencies) <= Len(LoadedKeys)
  /\ pc = "done" =>
       \E o \in LoadFilesOutcomes(WithoutExcluded) : o.err = err /\ SameButRaw(o.c, c)

\* a group .hidden whose Chart.yaml does not decode was visited, and so was a
\* loadable group; the load succeeded with one dependency
C7_Witness ==
  /\ pc = "done"
  /\ err = NoErr
  /\ \E i \in Indexes(visited) : visited[i] = ".hidden"
  /\ Len(visited) = 2
  /\ Len(c.Dependencies) = 1

\* the keys with extension .tgz that are not excluded
TgzKeys == {n \in DOMAIN subcharts : ~Excluded(n) /\ Ext(n) = ".tgz"}

Visited(n) == \E i \in Indexes(visited) : visited[i] = n

\* C8: for a .tgz key that is not excluded the archive loader is called only
\* when the group's first (for a real archive: sole) member is named exactly
\* the key; when that name differs, the visit of the group ends LoadFiles with
\* the naming error for that key, without a call of the archive loader and
\* without a dependency for it, and LoadFiles never succeeds.
C8_TgzNamingMismatch ==
  \A n \in TgzKeys :
    /\ n \in archived => subcharts[n][1].Name = n
    /\ subcharts[n][1].Name # n =>
         /\ n \notin archived
         /\ Visited(n) =>
              /\ pc = "done"
              /\ err = ErrNaming(n)
              /\ visited[Len(visited)] = n
              /\ Len(c.Dependencies) = Len(LoadedKeys) - 1
         /\ pc = "done" => err # NoErr

\* the group foo.tgz with the member foo.tgz/bar.tgz was visited
C8_Witness ==
  /\ pc = "done"
  /\ "foo.tgz" \in TgzKeys
  /\ subcharts["foo.tgz"][1].Name = "foo.tgz/bar.tgz"
  /\ Visited("foo.tgz")
  /\ err = ErrNaming("foo.tgz")
  /\ archived = {}

\* a file directly under charts/: no "/" after charts/, not .prov, not .tgz, and
\* not starting with "_" or "."
Stray(f) ==
  /\ UnderCharts(f)
  /\ IndexSlash(f.Name, Len("charts/") + 1) = 0
  /\ Ext(f.Name) \notin {".prov", ".tgz"}
  /\ ~Excluded(KeyOf(f))

WithoutStray == SelectSeq(files, LAMBDA f : ~Stray(f))

\* C9: a file directly under charts/ is dropped and is no error: an input that
\* loads without such files loads with them too, with no dependency for them.
C9_StrayFileDropped ==
  (/\ pc = "done"
   /\ \E i \in Indexes(files) : Stray(files[i])
   /\ \A o \in LoadFilesOutcomes(WithoutStray) : o.err = NoErr) =>
    /\ err = NoErr
    /\ \E o \in LoadFilesOutcomes(WithoutStray) : o.c.Dependencies = c.Dependencies

====
